---- MODULE Spec2Model ----
(***************************************************************************)
(* The storefront of src/app.py: the Product, Order and OrderItem tables,  *)
(* the session cart, the cart routes, the checkout route stepped one       *)
(* database statement at a time, and the admin routes.                     *)
(*                                                                         *)
(* A checkout request works on its own SQLAlchemy session: what it adds    *)
(* or changes (the Order, the OrderItems, the products' stock) stays in    *)
(* that session until db.session.commit() and is dropped by                *)
(* db.session.rollback().  The handler asks for no row lock and no         *)
(* conditional update: it writes back the stock it computed from its own   *)
(* read.  Whether two requests overlap is then left to the database        *)
(* engine; the model lets them interleave between statements, as the code  *)
(* itself allows.                                                          *)
(***************************************************************************)
EXTENDS Integers, Sequences, FiniteSets, TLC

\* ------------------------------------------------------------- bounds
MaxPid == 2
NumSessions == 2
NumReqs == 2
MaxQty == 2
MaxStock == 2
MaxOrders == 2

PIDs == 1..MaxPid
Sessions == 1..NumSessions
Reqs == 1..NumReqs
\* int(request.form["price"]), int(request.form["stock"]): any integer
Prices == {10, 20}
FormStocks == -1..MaxStock
Statuses == {"Pending", "Shipped"}

VARIABLES
  product,    \* Product table: [PIDs -> [exists, price, stock]]
  orders,     \* Order table, the row with id i at index i: [user_id, status]
  items,      \* OrderItem table: [order_id, product_id, quantity, price_at_purchase]
  cart,       \* session["cart"] of each session: a list of [id, qty]
  flash,      \* the message last flashed into each session
  pc,         \* where each checkout request stands: "idle" or "loop"
  rsess,      \* the session a running checkout belongs to
  rcart,      \* cart = _get_cart() of a running checkout
  idx,        \* the cart entry the loop of a running checkout is at
  loaded,     \* the products a running checkout has changed in its session
  pstock,     \* their stock as that session holds it
  pitems,     \* the OrderItems that session has added
  outcome     \* how the last checkout of each request ended

vars == <<product, orders, items, cart, flash, pc, rsess, rcart, idx, loaded,
          pstock, pitems, outcome>>

db == <<product, orders, items>>
locals == <<rsess, rcart, idx, loaded, pstock, pitems>>

NoProduct == [exists |-> FALSE, price |-> 0, stock |-> 0]
NoStock == [p \in PIDs |-> 0]
NoOutcome == [kind |-> "none", at |-> 0]

\* flask_login's current_user.id of a session: every session is logged in,
\* as its own account
current_user(s) == s

\* ------------------------------------------------------------- cart
InCart(c, p) == \E i \in 1..Len(c) : c[i].id = p
EntryOf(c, p) == CHOOSE i \in 1..Len(c) : c[i].id = p /\ \A j \in 1..(i - 1) : c[j].id # p

\* a new entry for every add, also for a product the cart already holds
CartAddDuplicating(c, p) == Append(c, [id |-> p, qty |-> 1])

\* add_to_cart, lines 161-169: the cart after adding product p
CartAdd(c, p) ==
  IF InCart(c, p)
    THEN [c EXCEPT ![EntryOf(c, p)].qty = @ + 1]
    ELSE Append(c, [id |-> p, qty |-> 1])

\* list.pop(index), index counted from 0
CartPop(c, index) ==
  [i \in 1..(Len(c) - 1) |-> IF i <= index THEN c[i] ELSE c[i + 1]]

\* the test written as stock < 0, which lets a product with no stock through
OutOfStockBelowZero(p) == product[p].stock < 0

\* line 158: if product.stock <= 0
OutOfStock(p) == product[p].stock <= 0

add_to_cart(s, p) ==
  /\ product[p].exists
  /\ IF OutOfStock(p)
       THEN /\ flash' = [flash EXCEPT ![s] = "Out of stock!"]
            /\ UNCHANGED cart
       ELSE /\ \A i \in 1..Len(cart[s]) : cart[s][i].id = p => cart[s][i].qty < MaxQty
            /\ cart' = [cart EXCEPT ![s] = CartAdd(cart[s], p)]
            /\ UNCHANGED flash
  /\ UNCHANGED <<db, pc, locals, outcome>>

remove_from_cart(s, index) ==
  /\ 0 <= index /\ index < Len(cart[s])
  /\ cart' = [cart EXCEPT ![s] = CartPop(cart[s], index)]
  /\ UNCHANGED <<db, flash, pc, locals, outcome>>

\* ------------------------------------------------------------- checkout
InFlight == {r \in Reqs : pc[r] # "idle"}

Finish(r, kind, at) ==
  /\ pc' = [pc EXCEPT ![r] = "idle"]
  /\ outcome' = [outcome EXCEPT ![r] = [kind |-> kind, at |-> at]]
  /\ rsess' = [rsess EXCEPT ![r] = 1]
  /\ rcart' = [rcart EXCEPT ![r] = << >>]
  /\ idx' = [idx EXCEPT ![r] = 0]
  /\ loaded' = [loaded EXCEPT ![r] = {}]
  /\ pstock' = [pstock EXCEPT ![r] = NoStock]
  /\ pitems' = [pitems EXCEPT ![r] = << >>]

\* lines 239-241: an empty cart redirects to the cart page, GET or POST
checkout_empty(r, s) ==
  /\ pc[r] = "idle"
  /\ cart[s] = << >>
  /\ outcome' = [outcome EXCEPT ![r] = [kind |-> "empty", at |-> 0]]
  /\ UNCHANGED <<db, cart, flash, pc, locals>>

\* lines 244-245: request.form["address"] of a POST without the field is a
\* 400 response, before the session has been touched
checkout_bad_form(r, s) ==
  /\ pc[r] = "idle"
  /\ cart[s] # << >>
  /\ outcome' = [outcome EXCEPT ![r] = [kind |-> "bad_request", at |-> 0]]
  /\ UNCHANGED <<db, cart, flash, pc, locals>>

\* lines 239-250: the POST reads the cart, adds the Order and flushes
checkout_begin(r, s) ==
  /\ pc[r] = "idle"
  /\ cart[s] # << >>
  /\ Len(orders) + Cardinality(InFlight) < MaxOrders
  /\ pc' = [pc EXCEPT ![r] = "loop"]
  /\ rsess' = [rsess EXCEPT ![r] = s]
  /\ rcart' = [rcart EXCEPT ![r] = cart[s]]
  /\ idx' = [idx EXCEPT ![r] = 1]
  /\ outcome' = [outcome EXCEPT ![r] = NoOutcome]
  /\ UNCHANGED <<db, cart, flash, loaded, pstock, pitems>>

AtEntry(r) == pc[r] = "loop" /\ idx[r] <= Len(rcart[r])
Entry(r) == rcart[r][idx[r]]

\* Product.query.get inside the session: the session's own object once it is
\* loaded, the committed row otherwise
SeenStock(r, p) == IF p \in loaded[r] THEN pstock[r][p] ELSE product[p].stock

\* line 258: if p.stock < qty
Insufficient(stock, qty) == stock < qty

\* one unit taken per entry, whatever its quantity
DecrementByOne(stock, qty) == stock - 1

\* line 262: p.stock -= qty
Decrement(stock, qty) == stock - qty

\* the wrong column of the product snapshotted
PriceFromStock(p) == product[p].stock

\* line 263: price_at_purchase=p.price
PriceAtPurchase(p) == product[p].price

\* lines 254-256: the product is gone, the entry is skipped
checkout_skip(r) ==
  /\ AtEntry(r)
  /\ ~product[Entry(r).id].exists
  /\ idx' = [idx EXCEPT ![r] = @ + 1]
  /\ UNCHANGED <<db, cart, flash, pc, rsess, rcart, loaded, pstock, pitems,
                 outcome>>

\* the stock the session has already lowered is written instead of dropped
rollback_keeps_stock(r) ==
  /\ product' = [p \in PIDs |->
       IF p \in loaded[r] THEN [product[p] EXCEPT !.stock = pstock[r][p]]
                          ELSE product[p]]
  /\ UNCHANGED <<orders, items>>

\* line 259: db.session.rollback() drops everything the session holds
rollback(r) == UNCHANGED db

\* lines 258-261
checkout_insufficient(r) ==
  /\ AtEntry(r)
  /\ product[Entry(r).id].exists
  /\ Insufficient(SeenStock(r, Entry(r).id), Entry(r).qty)
  /\ rollback(r)
  /\ flash' = [flash EXCEPT ![rsess[r]] = "Insufficient stock"]
  /\ Finish(r, "insufficient", idx[r])
  /\ UNCHANGED cart

\* lines 262-264
checkout_take(r) ==
  /\ AtEntry(r)
  /\ product[Entry(r).id].exists
  /\ ~Insufficient(SeenStock(r, Entry(r).id), Entry(r).qty)
  /\ LET p == Entry(r).id
         qty == Entry(r).qty
     IN /\ pstock' = [pstock EXCEPT ![r][p] = Decrement(SeenStock(r, p), qty)]
        /\ loaded' = [loaded EXCEPT ![r] = @ \cup {p}]
        /\ pitems' = [pitems EXCEPT ![r] = Append(@,
               [product_id |-> p, quantity |-> qty,
                price_at_purchase |-> PriceAtPurchase(p)])]
  /\ idx' = [idx EXCEPT ![r] = @ + 1]
  /\ UNCHANGED <<db, cart, flash, pc, rsess, rcart, outcome>>

AtCommit(r) == pc[r] = "loop" /\ idx[r] > Len(rcart[r])

\* the UPDATE of a product row that was deleted meanwhile matches no row
Stale(r) == \E p \in loaded[r] : ~product[p].exists

\* line 266 raises: nothing is committed, line 267 is not reached
checkout_stale(r) ==
  /\ AtCommit(r)
  /\ Stale(r)
  /\ rollback(r)
  /\ Finish(r, "error", 0)
  /\ UNCHANGED <<cart, flash>>

\* the OrderItem rows of the session, with the id of its Order
ItemsOf(r, oid) ==
  [i \in 1..Len(pitems[r]) |->
     [order_id |-> oid, product_id |-> pitems[r][i].product_id,
      quantity |-> pitems[r][i].quantity,
      price_at_purchase |-> pitems[r][i].price_at_purchase]]

\* lines 266-268
checkout_commit(r) ==
  /\ AtCommit(r)
  /\ ~Stale(r)
  /\ orders' = Append(orders, [user_id |-> current_user(rsess[r]), status |-> "Pending"])
  /\ items' = items \o ItemsOf(r, Len(orders) + 1)
  /\ product' = [p \in PIDs |->
       IF p \in loaded[r] THEN [product[p] EXCEPT !.stock = pstock[r][p]]
                          ELSE product[p]]
  /\ cart' = [cart EXCEPT ![rsess[r]] = << >>]
  /\ Finish(r, "success", 0)
  /\ UNCHANGED flash

\* ------------------------------------------------------------- admin
Max(S) == CHOOSE x \in S : \A y \in S : y <= x
Existing == {p \in PIDs : product[p].exists}

\* the id the database gives a new Product row: one past the largest in use
NewId == IF Existing = {} THEN 1 ELSE Max(Existing) + 1

\* lines 300-309
admin_add_product(price, stock) ==
  /\ NewId \in PIDs
  /\ product' = [product EXCEPT ![NewId] =
                   [exists |-> TRUE, price |-> price, stock |-> stock]]
  /\ UNCHANGED <<orders, items, cart, flash, pc, locals, outcome>>

\* lines 315-323
admin_edit_product(pid, price, stock) ==
  /\ product[pid].exists
  /\ product' = [product EXCEPT ![pid] =
                   [exists |-> TRUE, price |-> price, stock |-> stock]]
  /\ UNCHANGED <<orders, items, cart, flash, pc, locals, outcome>>

\* lines 329-331
admin_delete_product(pid) ==
  /\ product[pid].exists
  /\ product' = [product EXCEPT ![pid] = NoProduct]
  /\ UNCHANGED <<orders, items, cart, flash, pc, locals, outcome>>

\* lines 337-343
admin_orders(oid, status) ==
  /\ oid \in 1..Len(orders)
  /\ orders' = [orders EXCEPT ![oid].status = status]
  /\ UNCHANGED <<product, items, cart, flash, pc, locals, outcome>>

\* ------------------------------------------------------------- specifications
\* the carts add_to_cart and remove_from_cart can leave in a session
Carts ==
  {c \in UNION {[1..n -> [id : PIDs, qty : 1..MaxQty]] : n \in 0..MaxPid} :
     \A i, j \in 1..Len(c) : i # j => c[i].id # c[j].id}

NoRequests ==
  /\ pc = [r \in Reqs |-> "idle"]
  /\ rsess = [r \in Reqs |-> 1]
  /\ rcart = [r \in Reqs |-> << >>]
  /\ idx = [r \in Reqs |-> 0]
  /\ loaded = [r \in Reqs |-> {}]
  /\ pstock = [r \in Reqs |-> NoStock]
  /\ pitems = [r \in Reqs |-> << >>]
  /\ outcome = [r \in Reqs |-> NoOutcome]

NoOrders == orders = << >> /\ items = << >>

\* lines 95-105: the seeded catalogue, every product with units in stock
\* (prices and stocks on the scale of the model)
Seeded(prices, stocks) == product \in [PIDs -> [exists : {TRUE}, price : prices, stock : stocks]]

\* The storefront as started: a shopper fills and empties the cart of a
\* session while the admin edits the stock of the products.
InitCart ==
  /\ Seeded({10}, {MaxStock})
  /\ NoOrders
  /\ cart = [s \in Sessions |-> << >>]
  /\ flash = [s \in Sessions |-> ""]
  /\ NoRequests

NextCart ==
  \/ \E p \in PIDs : add_to_cart(1, p)
  \/ \E i \in 0..MaxPid : remove_from_cart(1, i)
  \/ \E p \in PIDs, stock \in FormStocks : admin_edit_product(p, product[p].price, stock)

SpecCart == InitCart /\ [][NextCart]_vars

\* Checkout requests of sessions whose carts are filled, run concurrently,
\* while the admin deletes products.
InitCheckout ==
  /\ Seeded({10}, 1..MaxStock)
  /\ NoOrders
  /\ cart \in [Sessions -> Carts]
  /\ flash = [s \in Sessions |-> ""]
  /\ NoRequests

NextCheckout ==
  \/ \E r \in Reqs, s \in Sessions : checkout_empty(r, s)
  \/ \E r \in Reqs, s \in Sessions : checkout_bad_form(r, s)
  \/ \E r \in Reqs, s \in Sessions : checkout_begin(r, s)
  \/ \E r \in Reqs : checkout_skip(r)
  \/ \E r \in Reqs : checkout_insufficient(r)
  \/ \E r \in Reqs : checkout_take(r)
  \/ \E r \in Reqs : checkout_stale(r)
  \/ \E r \in Reqs : checkout_commit(r)
  \/ \E p \in PIDs : admin_delete_product(p)

SpecCheckout == InitCheckout /\ [][NextCheckout]_vars

\* Checkout requests run one after the other, each to its end: one request
\* at a time is in the server.
InitSerial ==
  /\ Seeded(Prices, 1..MaxStock)
  /\ NoOrders
  /\ cart \in [Sessions -> Carts]
  /\ flash = [s \in Sessions |-> ""]
  /\ NoRequests

NextSerial ==
  \/ \E s \in Sessions : checkout_begin(1, s)
  \/ \E r \in Reqs : checkout_insufficient(r)
  \/ \E r \in Reqs : checkout_take(r)
  \/ \E r \in Reqs : checkout_commit(r)

SpecSerial == InitSerial /\ [][NextSerial]_vars

\* Two sessions, each with one unit of the same product in its cart, and one
\* unit of it in stock; request r is the checkout of session r, sent once.
InitRace ==
  /\ Seeded(Prices, {1})
  /\ NoOrders
  /\ \E p \in PIDs : cart = [s \in Sessions |-> << [id |-> p, qty |-> 1] >>]
  /\ flash = [s \in Sessions |-> ""]
  /\ NoRequests

NextRace ==
  \/ \E r \in Reqs : r \in Sessions /\ outcome[r] = NoOutcome /\ checkout_begin(r, r)
  \/ \E r \in Reqs : checkout_insufficient(r)
  \/ \E r \in Reqs : checkout_take(r)
  \/ \E r \in Reqs : checkout_commit(r)

SpecRace == InitRace /\ [][NextRace]_vars

\* The admin at work on the catalogue and the orders while sessions with at
\* most one unit of one product in their carts check out, one request at a time in the server.
InitAdmin ==
  /\ Seeded(Prices, {MaxStock})
  /\ NoOrders
  /\ cart \in [Sessions -> {c \in Carts : Len(c) <= 1 /\ \A i \in 1..Len(c) : c[i].qty = 1}]
  /\ flash = [s \in Sessions |-> ""]
  /\ NoRequests

NextAdmin ==
  \/ \E s \in Sessions : checkout_begin(1, s)
  \/ \E r \in Reqs : checkout_skip(r)
  \/ \E r \in Reqs : checkout_insufficient(r)
  \/ \E r \in Reqs : checkout_take(r)
  \/ \E r \in Reqs : checkout_stale(r)
  \/ \E r \in Reqs : checkout_commit(r)
  \/ \E price \in Prices, stock \in FormStocks : admin_add_product(price, stock)
  \/ \E p \in PIDs, price \in Prices, stock \in FormStocks : admin_edit_product(p, price, stock)
  \/ \E p \in PIDs : admin_delete_product(p)
  \/ \E o \in 1..MaxOrders, st \in Statuses : admin_orders(o, st)

SpecAdmin == InitAdmin /\ [][NextAdmin]_vars

\* ------------------------------------------------------------- properties
Ends(r, kind) == pc[r] = "loop" /\ pc'[r] = "idle" /\ outcome'[r].kind = kind
Steps(r) ==
  pc'[r] # pc[r] \/ idx'[r] # idx[r] \/ outcome'[r] # outcome[r] \/ pitems'[r] # pitems[r]

QtyIn(c, p) == IF InCart(c, p) THEN c[EntryOf(c, p)].qty ELSE 0

RECURSIVE SoldIn(_, _)
SoldIn(its, p) ==
  IF its = << >> THEN 0
  ELSE (IF Head(its).product_id = p THEN Head(its).quantity ELSE 0) + SoldIn(Tail(its), p)

ItemsOfOrder(o) == {i \in 1..Len(items) : items[i].order_id = o}

\* C1: every step of a checkout request other than its successful commit, and
\* so each way it fails (insufficient stock at any entry of the cart, the
\* error at commit, the refused form, the empty cart), leaves the Product,
\* Order and OrderItem tables exactly as they were.
CheckoutAtomicity ==
  [][\A r \in Reqs : (Steps(r) /\ ~Ends(r, "success")) => UNCHANGED db]_vars

\* a checkout has failed at the second entry of its cart, after it had
\* lowered the stock of the first in its session
FailedAfterDecrement ==
  \E r \in Reqs :
    /\ outcome[r].kind = "insufficient"
    /\ outcome[r].at = 2
    /\ \A p \in PIDs : product[p].exists

\* C2: every product's stock is at least 0 in every committed state.
StockNonNegative == \A p \in PIDs : product[p].exists => product[p].stock >= 0

CheckoutEffect ==
  [][\A r \in Reqs :
       LET c == cart[rsess[r]]
           n == Len(items)
       IN /\ Ends(r, "success") =>
               /\ orders' = Append(orders,
                     [user_id |-> current_user(rsess[r]), status |-> "Pending"])
               /\ Len(items') = n + Len(c)
               /\ \A i \in 1..n : items'[i] = items[i]
               /\ \A i \in 1..Len(c) : items'[n + i] =
                     [order_id |-> Len(orders) + 1, product_id |-> c[i].id,
                      quantity |-> c[i].qty,
                      price_at_purchase |-> product[c[i].id].price]
               /\ \A p \in PIDs : product'[p] =
                     [product[p] EXCEPT !.stock = @ - QtyIn(c, p)]
               /\ cart'[rsess[r]] = << >>
               /\ \A s \in Sessions : s # rsess[r] => cart'[s] = cart[s]
          /\ Ends(r, "insufficient") =>
               \E i \in 1..Len(c) : product[c[i].id].stock < c[i].qty]_vars

\* a checkout of a cart of two entries, one of them for two units, has
\* committed
TwoEntriesOrdered ==
  \E r \in Reqs :
    /\ outcome[r].kind = "success"
    /\ Len(orders) = 1
    /\ Len(items) = 2
    /\ \E i \in 1..2 : items[i].quantity = 2

\* C6: every committed Order has at least one OrderItem.
EveryOrderHasItems == \A o \in 1..Len(orders) : ItemsOfOrder(o) # {}

\* C7: the OrderItem a checkout adds carries the price the product has at
\* that moment, the items it commits are the ones it added, and a committed
\* OrderItem is never changed or removed afterwards, whatever the admin does
\* to the product or the order and whatever is checked out later.
PriceSnapshot ==
  [][/\ \A i \in 1..Len(items) : Len(items') >= i /\ items'[i] = items[i]
     /\ \A r \in Reqs :
          /\ Len(pitems'[r]) > Len(pitems[r]) =>
               /\ Len(pitems'[r]) = Len(pitems[r]) + 1
               /\ pitems'[r][Len(pitems'[r])].product_id = Entry(r).id
               /\ pitems'[r][Len(pitems'[r])].price_at_purchase = product[Entry(r).id].price
          /\ Ends(r, "success") =>
               /\ Len(items') = Len(items) + Len(pitems[r])
               /\ \A i \in 1..Len(pitems[r]) :
                    /\ items'[Len(items) + i].product_id = pitems[r][i].product_id
                    /\ items'[Len(items) + i].price_at_purchase =
                         pitems[r][i].price_at_purchase]_vars

\* an OrderItem is on record whose product has since got another price, and
\* one whose product is gone
PriceMovedOn ==
  /\ \E i \in 1..Len(items) :
       /\ product[items[i].product_id].exists
       /\ product[items[i].product_id].price # items[i].price_at_purchase
  /\ \E i \in 1..Len(items) : ~product[items[i].product_id].exists
  /\ \E o \in 1..Len(orders) : orders[o].status # "Pending"

\* C8: the checkouts of one session on one unchanged cart commit at most
\* one Order between them.  Under SpecCheckout a session's cart is filled
\* once, so every checkout of the session is a submission of that cart.
AtMostOneOrderPerCart ==
  \A s \in Sessions :
    Cardinality({o \in 1..Len(orders) : orders[o].user_id = current_user(s)}) <= 1

CartWellFormed(c) ==
  /\ \A i, j \in 1..Len(c) : i # j => c[i].id # c[j].id
  /\ \A i \in 1..Len(c) : c[i].qty >= 1

CartStep(c, d) ==
  \/ d = c
  \/ Len(d) = Len(c) - 1
  \/ \E p \in PIDs : ~InCart(c, p) /\ d = Append(c, [id |-> p, qty |-> 1])
  \/ \E i \in 1..Len(c) : d = [c EXCEPT ![i].qty = @ + 1]

\* C9: a cart holds at most one entry per product, each of quantity 1 or
\* more; adding a product the cart holds raises that entry's quantity by 1
\* and leaves the number and order of the entries as they are, adding
\* another product appends an entry of quantity 1.
CartDedup ==
  /\ [](\A s \in Sessions : CartWellFormed(cart[s]))
  /\ [][\A s \in Sessions : CartStep(cart[s], cart'[s])]_vars

\* a product has been added twice to an empty cart
AddedTwice ==
  \E s \in Sessions, p \in PIDs : cart[s] = << [id |-> p, qty |-> 2] >>

\* C10: an entry is added to a cart, or its quantity raised, only for a
\* product with units in stock; the add that flashes "Out of stock!" leaves
\* every cart as it was; and a step that changes a cart or flashes changes
\* nothing in the Product, Order and OrderItem tables.
AddRespectsStock ==
  [][\A s \in Sessions :
       /\ \A p \in PIDs : QtyIn(cart'[s], p) > QtyIn(cart[s], p) =>
             product[p].exists /\ product[p].stock > 0
       /\ flash'[s] # flash[s] =>
             /\ flash'[s] = "Out of stock!"
             /\ cart' = cart
             /\ \E p \in PIDs : product[p].exists /\ product[p].stock <= 0
       /\ (cart'[s] # cart[s] \/ flash'[s] # flash[s]) => UNCHANGED db]_vars

\* an add has been refused for a session that has other products in its cart
RefusedOutOfStock ==
  \E s \in Sessions : flash[s] = "Out of stock!" /\ cart[s] # << >>

====
